---- MODULE Spec2Model ----
(***************************************************************************)
(* simple_disk_cache: a disk-backed key/value cache with a byte budget and *)
(* least-recently-used eviction (src/src/lib.rs, src/src/encoding.rs).     *)
(*                                                                         *)
(* State: the configuration, the life cycle of the SimpleCache instance,   *)
(* its in-memory Metadata (the ledger), and the cache directory on disk    *)
(* (the metadata file, the payload files, the shard directories).          *)
(* One action per public operation: initialize, get, put, and the drop of  *)
(* the instance; GetFail is a get during which the environment makes one   *)
(* file-system or codec call fail.  A panic (the unwrap in cleanup, the     *)
(* remainder by zero in data_file_path) unwinds through the caller: the    *)
(* instance is gone and the directory stays as the call left it.           *)
(* u64 arithmetic is modelled on unbounded integers: no value of the model *)
(* comes near 2^64.  The queue of the addressable_queue crate is modelled  *)
(* as a sequence of pairs, head first.                                     *)
(***************************************************************************)
EXTENDS Integers, Sequences, FiniteSets, TLC

VARIABLES
    config,     \* CacheConfig: max_bytes, encoding, subdirs_per_level
    inst,       \* "none" (no instance), "open", "panicked" (a call panicked)
    metadata,   \* SimpleCache.metadata: current_size, counter, entries
    metaFile,   \* the file data_dir/cache_data.<ext>: exists, content
    files,      \* payload files: set of [path, content]
    dirs,       \* shard directories created under data_dir
    last,       \* the last call and what it returned
    lru,        \* history: the <<key, value>> pairs put and not evicted,
                \* least recently put-or-read first
    failures    \* history: the calls the environment has made fail

vars == <<config, inst, metadata, metaFile, files, dirs, last, lru, failures>>

----------------------------------------------------------------------------
(* Bounds of the model.                                                    *)

\* keys are 1..MaxKey
MaxKey == 3
\* a put of a fresh key is taken only while counter < MaxCounter
MaxCounter == 3
\* the environment makes at most MaxFailures calls fail
MaxFailures == 1

Keys == 1..MaxKey
\* u64 payloads whose JSON texts have 1 and 3 bytes; 300 needs two bincode bytes
Values == {7, 300}
Encodings == {"bincode", "json"}
\* budgets: nothing fits (0); one short JSON payload and no long one (1);
\* below one bincode payload and one long or three short JSON payloads (3);
\* a long and two short JSON payloads (5); exactly two bincode payloads (16)
MaxBytesChoices(enc) == IF enc = "bincode" THEN {0, 3, 16} ELSE {0, 1, 3, 5}
\* subdirs_per_level: the invalid 0, one directory, two shards per level
SubdirsChoices == {0, 1, 2}

\* what stands for the key and the value of a call that has none
NoKey == 0 - 1
NoValue == 0 - 1

----------------------------------------------------------------------------
(* Encoding abstraction: src/src/encoding.rs                               *)

extension(enc) == enc

RECURSIVE ToLittleEndian(_, _)
ToLittleEndian(n, width) ==
    IF width = 0 THEN <<>>
    ELSE <<n % 256>> \o ToLittleEndian(n \div 256, width - 1)

RECURSIVE FromLittleEndian(_)
FromLittleEndian(bytes) ==
    IF bytes = <<>> THEN 0
    ELSE Head(bytes) + 256 * FromLittleEndian(Tail(bytes))

RECURSIVE ToDecimal(_)
ToDecimal(n) ==
    IF n < 10 THEN <<48 + n>>
    ELSE ToDecimal(n \div 10) \o <<48 + (n % 10)>>

RECURSIVE FromDecimal(_)
FromDecimal(bytes) ==
    IF bytes = <<>> THEN 0
    ELSE 10 * FromDecimal(SubSeq(bytes, 1, Len(bytes) - 1))
         + (bytes[Len(bytes)] - 48)

\* a serialize that writes the low byte of the value only
serialize_low_byte(enc, value) ==
    IF enc = "bincode" THEN ToLittleEndian(value % 256, 8)
    ELSE ToDecimal(value % 256)

\* DataEncoding::serialize for a u64 payload: the bytes written to the sink.
\* bincode writes the 8 little-endian bytes, serde_json the decimal text.
serialize(enc, value) ==
    IF enc = "bincode" THEN ToLittleEndian(value, 8) ELSE ToDecimal(value)

\* WriteCounter: the count serialize returns is the number of bytes written.
WriteCounter(bytes) == Len(bytes)

\* DataEncoding::deserialize for a u64 payload: [ok, value].
deserialize(enc, bytes) ==
    IF enc = "bincode"
    THEN IF Len(bytes) < 8 THEN [ok |-> FALSE, value |-> NoValue]
         ELSE [ok |-> TRUE, value |-> FromLittleEndian(SubSeq(bytes, 1, 8))]
    ELSE IF bytes = <<>> \/ \E i \in 1..Len(bytes) : bytes[i] \notin 48..57
         THEN [ok |-> FALSE, value |-> NoValue]
         ELSE [ok |-> TRUE, value |-> FromDecimal(bytes)]

----------------------------------------------------------------------------
(* The ledger: Metadata and its Queue<K, CacheEntry> (src/src/lib.rs)      *)
(* entries is a sequence of [key, size, id], head first.                   *)

EmptyMetadata == [current_size |-> 0, counter |-> 0, entries |-> <<>>]

HasKey(entries, key) == \E i \in 1..Len(entries) : entries[i].key = key

EntryOf(entries, key) ==
    entries[CHOOSE i \in 1..Len(entries) : entries[i].key = key]

\* Queue::remove_key: the queue without the key's node
remove_key(entries, key) ==
    SelectSeq(entries, LAMBDA e : e.key # key)

\* an insert that puts the pair at the head
insert_at_head(entries, key, size, id) ==
    <<[key |-> key, size |-> size, id |-> id]>> \o remove_key(entries, key)

\* an insert that stores the id as the size and the size as the id
insert_swapped(entries, key, size, id) ==
    Append(remove_key(entries, key), [key |-> key, size |-> id, id |-> size])

\* Queue::insert: the pair goes to the tail
insert(entries, key, size, id) ==
    Append(remove_key(entries, key), [key |-> key, size |-> size, id |-> id])

RECURSIVE SumSizes(_)
SumSizes(entries) ==
    IF entries = <<>> THEN 0 ELSE Head(entries).size + SumSizes(Tail(entries))

KeysOf(entries) == [i \in 1..Len(entries) |-> entries[i].key]

\* Serialize for Metadata: the fields in declaration order, the queue's
\* pairs head first.
RECURSIVE FlattenEntries(_)
FlattenEntries(entries) ==
    IF entries = <<>> THEN <<>>
    ELSE <<Head(entries).key, Head(entries).size, Head(entries).id>>
         \o FlattenEntries(Tail(entries))

\* a Serialize that writes the queue's pairs tail first
SerializeMetadata_reversed(m) ==
    <<m.current_size, m.counter, Len(m.entries)>>
    \o FlattenEntries([i \in 1..Len(m.entries) |->
                         m.entries[Len(m.entries) + 1 - i]])

SerializeMetadata(m) ==
    <<m.current_size, m.counter, Len(m.entries)>> \o FlattenEntries(m.entries)

\* Deserialize for Metadata: [ok, metadata]
DeserializeMetadata(tokens) ==
    IF Len(tokens) < 3 \/ Len(tokens) # 3 + 3 * tokens[3]
    THEN [ok |-> FALSE, metadata |-> EmptyMetadata]
    ELSE [ok |-> TRUE,
          metadata |->
            [current_size |-> tokens[1],
             counter |-> tokens[2],
             entries |-> [i \in 1..tokens[3] |->
                            [key  |-> tokens[3 * i + 1],
                             size |-> tokens[3 * i + 2],
                             id   |-> tokens[3 * i + 3]]]]]

----------------------------------------------------------------------------
(* The file system under data_dir                                          *)

NoFile == [exists |-> FALSE, content |-> <<>>]

FileExists(fs, path) == \E f \in fs : f.path = path
ReadFile(fs, path) == (CHOOSE f \in fs : f.path = path).content
WriteFile(fs, path, content) ==
    {f \in fs : f.path # path} \cup {[path |-> path, content |-> content]}
\* a remove_file that returns Ok and leaves the file
RemoveFile_kept(fs, path) == fs

RemoveFile(fs, path) == {f \in fs : f.path # path}

\* a path whose two directory levels are both the id modulo subdirs_per_level
data_file_path_flat(entry_id) ==
    LET s == config.subdirs_per_level
    IN [subdir_1 |-> entry_id % s,
        subdir_2 |-> entry_id % s,
        name |-> entry_id,
        ext |-> extension(config.encoding)]

\* SimpleCache::data_file_path, for subdirs_per_level >= 1
data_file_path(entry_id) ==
    LET s == config.subdirs_per_level
    IN [subdir_1 |-> entry_id % s,
        subdir_2 |-> (entry_id \div s) % s,
        name |-> entry_id,
        ext |-> extension(config.encoding)]

DirOf(path) == <<path.subdir_1, path.subdir_2>>

----------------------------------------------------------------------------
(* The operations of SimpleCache (src/src/lib.rs).  Each is a function of  *)
(* the instance, the directory and the point `fail` at which the          *)
(* environment makes a file-system or codec call fail ("none": no call     *)
(* fails but those the directory's own state makes fail, such as opening  *)
(* or removing a file that is not there).  A serialize that fails leaves   *)
(* the file it was writing created and empty.                              *)

\* a write_metadata that returns Ok without touching the file
write_metadata_skipped(m, file, fail) ==
    [ok |-> TRUE, error |-> "", file |-> file]

\* SimpleCache::write_metadata: File::create, then serialize into the file
write_metadata(m, file, fail) ==
    IF fail = "create_metadata"
    THEN [ok |-> FALSE, error |-> "CreateFile", file |-> file]
    ELSE IF fail = "write_metadata"
    THEN [ok |-> FALSE, error |-> "SerializeMetadata",
          file |-> [exists |-> TRUE, content |-> <<>>]]
    ELSE [ok |-> TRUE, error |-> "",
          file |-> [exists |-> TRUE, content |-> SerializeMetadata(m)]]

\* a loop condition that also evicts at the budget
OverBudget_at_budget(m) == m.current_size >= config.max_bytes

\* a loop condition that lets one byte too many stay
OverBudget_off_by_one(m) == m.current_size > config.max_bytes + 1

\* the loop condition of SimpleCache::cleanup
OverBudget(m) == m.current_size > config.max_bytes

\* a remove_head that takes the pair at the tail
remove_tail(entries) ==
    [entry |-> entries[Len(entries)],
     rest |-> SubSeq(entries, 1, Len(entries) - 1)]

\* Queue::remove_head: the head pair and the rest of the queue
remove_head(entries) == [entry |-> Head(entries), rest |-> Tail(entries)]

\* SimpleCache::cleanup: [res, error, metadata, files, dirs, evicted]
RECURSIVE cleanup(_, _, _, _, _)
cleanup(m, fs, ds, evicted, fail) ==
    LET Out(res, error, m2, fs2, ds2, ev2) ==
            [res |-> res, error |-> error, metadata |-> m2, files |-> fs2,
             dirs |-> ds2, evicted |-> ev2]
    IN IF ~OverBudget(m)
       THEN Out("ok", "", m, fs, ds, evicted)
       ELSE IF m.entries = <<>>
       THEN \* remove_head() is None: unwrap panics
            Out("panic", "unwrap", m, fs, ds, evicted)
       ELSE
       LET h == remove_head(m.entries)
           m1 == [m EXCEPT !.entries = h.rest,
                           !.current_size = @ - h.entry.size]
           ev1 == Append(evicted, h.entry)
       IN IF config.subdirs_per_level = 0
          THEN Out("panic", "rem_by_zero", m1, fs, ds, ev1)
          ELSE IF fail = "cleanup_dir"
          THEN Out("err", "CreateDir", m1, fs, ds, ev1)
          ELSE
          LET path == data_file_path(h.entry.id)
              ds1 == ds \cup {DirOf(path)}
          IN IF fail = "remove_file" \/ ~FileExists(fs, path)
             THEN Out("err", "RemoveFile", m1, fs, ds1, ev1)
             ELSE cleanup(m1, RemoveFile(fs, path), ds1, ev1, fail)

\* what a call returns and leaves behind
Outcome(res, error, value, m, mf, fs, ds, bytes, mid, evicted) ==
    [res |-> res, error |-> error, value |-> value, metadata |-> m,
     metaFile |-> mf, files |-> fs, dirs |-> ds, bytes |-> bytes,
     mid |-> mid, evicted |-> evicted]

\* a lookup that leaves the pair in the queue
take_peeked(m, key) == m

\* get and put take the key's pair out of the queue first: remove_key(key)
take(m, key) == [m EXCEPT !.entries = remove_key(@, key)]

\* a miss that rewrites the metadata file before it returns Ok(None)
get_miss_persisted(m, mf, fs, ds) ==
    Outcome("none", "", NoValue, m,
            [exists |-> TRUE, content |-> SerializeMetadata(m)],
            fs, ds, 0, 0, <<>>)

\* SimpleCache::get, no entry for the key: Ok(None)
get_miss(m, mf, fs, ds) ==
    Outcome("none", "", NoValue, m, mf, fs, ds, 0, 0, <<>>)

\* SimpleCache::get
get(m, mf, fs, ds, key, fail) ==
    LET Out(res, error, value, m2, mf2, ds2) ==
            Outcome(res, error, value, m2, mf2, fs, ds2, 0, 0, <<>>)
    IN IF ~HasKey(m.entries, key)
       THEN get_miss(m, mf, fs, ds)
       ELSE
       LET item == EntryOf(m.entries, key)
           m1 == take(m, key)
       IN IF config.subdirs_per_level = 0
          THEN Out("panic", "rem_by_zero", NoValue, m1, mf, ds)
          ELSE IF fail = "create_dir"
          THEN Out("err", "CreateDir", NoValue, m1, mf, ds)
          ELSE
          LET path == data_file_path(item.id)
              ds1 == ds \cup {DirOf(path)}
          IN IF fail = "open" \/ ~FileExists(fs, path)
             THEN Out("err", "ReadCacheFile", NoValue, m1, mf, ds1)
             ELSE
             LET d == deserialize(config.encoding, ReadFile(fs, path))
             IN IF fail = "decode" \/ ~d.ok
                THEN Out("err", "DeserializeValue", NoValue, m1, mf, ds1)
                ELSE
                LET m2 == [m1 EXCEPT
                             !.entries = insert(@, key, item.size, item.id)]
                    w == write_metadata(m2, mf, fail)
                IN IF ~w.ok
                   THEN Out("err", w.error, NoValue, m2, w.file, ds1)
                   ELSE Out("some", "", d.value, m2, w.file, ds1)

\* an allocation that takes a new id for every put
entry_id_fresh(m, key) == [id |-> m.counter, counter |-> m.counter + 1]

\* SimpleCache::put, the id of the key's payload file and the next counter
entry_id_for(m, key) ==
    IF HasKey(m.entries, key)
    THEN [id |-> EntryOf(m.entries, key).id, counter |-> m.counter]
    ELSE [id |-> m.counter, counter |-> m.counter + 1]

\* SimpleCache::put
put(m, mf, fs, ds, key, value, fail) ==
    LET Out(res, error, m2, mf2, fs2, ds2, bytes, mid, evicted) ==
            Outcome(res, error, value, m2, mf2, fs2, ds2, bytes, mid, evicted)
        e == entry_id_for(m, key)
        m1 == [take(m, key) EXCEPT !.counter = e.counter]
    IN IF config.subdirs_per_level = 0
       THEN Out("panic", "rem_by_zero", m1, mf, fs, ds, 0, m1.current_size,
                <<>>)
       ELSE IF fail = "create_dir"
       THEN Out("err", "CreateDir", m1, mf, fs, ds, 0, m1.current_size, <<>>)
       ELSE
       LET path == data_file_path(e.id)
           ds1 == ds \cup {DirOf(path)}
       IN IF fail = "create_file"
          THEN Out("err", "CreateFile", m1, mf, fs, ds1, 0, m1.current_size,
                   <<>>)
          ELSE IF fail = "serialize"
          THEN \* File::create has truncated the file
               Out("err", "SerializeValue", m1, mf, WriteFile(fs, path, <<>>),
                   ds1, 0, m1.current_size, <<>>)
          ELSE
          LET content == serialize(config.encoding, value)
              bytes == WriteCounter(content)
              fs1 == WriteFile(fs, path, content)
              m2 == [m1 EXCEPT
                       !.entries = insert(@, key, bytes, e.id),
                       !.current_size = @ + bytes]
              c == cleanup(m2, fs1, ds1, <<>>, fail)
              w == write_metadata(c.metadata, mf, fail)
          IN IF c.res # "ok"
             THEN Out(c.res, c.error, c.metadata, mf, c.files, c.dirs, bytes,
                      m2.current_size, c.evicted)
             ELSE IF ~w.ok
             THEN Out("err", w.error, c.metadata, w.file, c.files, c.dirs,
                      bytes, m2.current_size, c.evicted)
             ELSE Out("ok", "", c.metadata, w.file, c.files, c.dirs, bytes,
                      m2.current_size, c.evicted)

\* SimpleCache::initialize: the ledger read from the metadata file, or empty.
\* data_dir itself is taken to exist or to be creatable.
initialize(mf) ==
    IF mf.exists
    THEN LET d == DeserializeMetadata(mf.content)
         IN [res |-> IF d.ok THEN "ok" ELSE "err",
             error |-> IF d.ok THEN "" ELSE "DeserializeMetadata",
             metadata |-> d.metadata]
    ELSE [res |-> "ok", error |-> "", metadata |-> EmptyMetadata]

----------------------------------------------------------------------------
(* The state machine.  last, lru and failures are history variables: they  *)
(* record the last call with its result, the pairs put and not yet evicted *)
(* in the order of their last put or successful get, and the number of     *)
(* calls the environment has made fail; no operation reads them.           *)

Configs ==
    UNION {[max_bytes : MaxBytesChoices(enc),
            encoding : {enc},
            subdirs_per_level : SubdirsChoices] : enc \in Encodings}

Call(op, key, r) ==
    [op |-> op, key |-> key, value |-> r.value, res |-> r.res,
     error |-> r.error, bytes |-> r.bytes, mid |-> r.mid,
     evicted |-> r.evicted]

NoCall(op, r) ==
    [op |-> op, key |-> NoKey, value |-> NoValue, res |-> r.res,
     error |-> r.error, bytes |-> 0, mid |-> 0, evicted |-> <<>>]

\* the history of live pairs after a call
Touch(h, key, value) ==
    Append(SelectSeq(h, LAMBDA p : p[1] # key), <<key, value>>)

Forget(h, entries) ==
    SelectSeq(h, LAMBDA p : \A i \in 1..Len(entries) : entries[i].key # p[1])

HistoryValue(h, key) ==
    h[CHOOSE i \in 1..Len(h) : h[i][1] = key][2]

InHistory(h, key) == \E i \in 1..Len(h) : h[i][1] = key

Recorded(op, key, r) ==
    IF r.res = "ok" /\ op = "put"
        THEN Forget(Touch(lru, key, r.value), r.evicted)
    ELSE IF r.res = "some" /\ InHistory(lru, key)
        THEN Touch(lru, key, HistoryValue(lru, key))
    ELSE IF r.res = "err"
        THEN SelectSeq(lru, LAMBDA p : HasKey(r.metadata.entries, p[1]))
    ELSE lru

\* the instance and the directory after a get or put returned r
Returned(op, key, r) ==
    /\ inst' = IF r.res = "panic" THEN "panicked" ELSE "open"
    /\ metadata' = IF r.res = "panic" THEN EmptyMetadata ELSE r.metadata
    /\ metaFile' = r.metaFile
    /\ files' = r.files
    /\ dirs' = r.dirs
    /\ last' = Call(op, key, r)
    /\ lru' = Recorded(op, key, r)
    /\ UNCHANGED config

\* an empty directory and no instance
Fresh ==
    /\ inst = "none"
    /\ metadata = EmptyMetadata
    /\ metaFile = NoFile
    /\ files = {}
    /\ dirs = {}
    /\ last = NoCall("none", [res |-> "ok", error |-> ""])
    /\ lru = <<>>
    /\ failures = 0

Init == config \in Configs /\ Fresh

\* the configurations under which the environment's failures are explored:
\* sharded, with budgets that hold two or three payloads
ConfigsIO ==
    {c \in Configs :
        /\ c.subdirs_per_level = 2
        /\ c.max_bytes = IF c.encoding = "bincode" THEN 16 ELSE 3}

InitIO == config \in ConfigsIO /\ Fresh

\* SimpleCache::initialize on the directory, by a process that holds no instance
Initialize ==
    /\ inst # "open"
    /\ LET r == initialize(metaFile)
       IN /\ inst' = IF r.res = "ok" THEN "open" ELSE "none"
          /\ metadata' = r.metadata
          /\ last' = NoCall("initialize", r)
    /\ UNCHANGED <<config, metaFile, files, dirs, lru, failures>>

\* the instance goes out of scope
Drop ==
    /\ inst = "open"
    /\ inst' = "none"
    /\ metadata' = EmptyMetadata
    /\ last' = NoCall("drop", [res |-> "ok", error |-> ""])
    /\ UNCHANGED <<config, metaFile, files, dirs, lru, failures>>

Get(key) ==
    /\ inst = "open"
    /\ Returned("get", key, get(metadata, metaFile, files, dirs, key, "none"))
    /\ UNCHANGED failures

Put(key, value) ==
    /\ inst = "open"
    /\ HasKey(metadata.entries, key) \/ metadata.counter < MaxCounter
    /\ Returned("put", key,
                put(metadata, metaFile, files, dirs, key, value, "none"))
    /\ UNCHANGED failures

GetFailPoints == {"create_dir", "open", "decode", "create_metadata",
                  "write_metadata"}

\* a get in which the environment fails one call
GetFail(key, fail) ==
    /\ inst = "open"
    /\ failures < MaxFailures
    /\ failures' = failures + 1
    /\ LET r == get(metadata, metaFile, files, dirs, key, fail)
       IN r.res = "err" /\ Returned("get", key, r)

Next ==
    \/ Initialize
    \/ Drop
    \/ \E key \in Keys : Get(key)
    \/ \E key \in Keys, value \in Values : Put(key, value)

\* the cache on a file system whose calls all succeed
Spec == Init /\ [][Next]_vars

NextIO ==
    \/ Next
    \/ \E key \in Keys, fail \in GetFailPoints : GetFail(key, fail)

\* the cache on a file system whose calls may fail
SpecIO == InitIO /\ [][NextIO]_vars

PutFailPoints == {"create_dir", "create_file", "serialize", "cleanup_dir",
                  "remove_file", "create_metadata", "write_metadata"}

\* a put in which the environment fails one call
PutFail(key, value, fail) ==
    /\ inst = "open"
    /\ failures < MaxFailures
    /\ failures' = failures + 1
    /\ HasKey(metadata.entries, key) \/ metadata.counter < MaxCounter
    /\ LET r == put(metadata, metaFile, files, dirs, key, value, fail)
       IN r.res = "err" /\ Returned("put", key, r)

\* the configuration under which failing puts are explored: sharded, JSON,
\* a budget that holds one long or three short payloads
ConfigsPutIO ==
    {c \in Configs :
        /\ c.subdirs_per_level = 2
        /\ c.encoding = "json"
        /\ c.max_bytes = 3}

InitPutIO == config \in ConfigsPutIO /\ Fresh

NextPutIO ==
    \/ Next
    \/ \E key \in Keys, value \in Values, fail \in PutFailPoints :
          PutFail(key, value, fail)

\* the cache on a file system on which calls of put may fail
SpecPutIO == InitPutIO /\ [][NextPutIO]_vars

----------------------------------------------------------------------------
(* Properties                                                              *)

\* what get(key) would return from the present state
Lookup(m, key) ==
    LET r == get(m, metaFile, files, dirs, key, "none")
    IN [res |-> r.res, value |-> r.value]

Succeeded == last.res \in {"ok", "some", "none"}

\* C1 (round trip): while the instance is open, every key that was put and
\* has not been evicted since is read back by get as Some(v), v the value of
\* its most recent put, under either encoding.
C1_RoundTrip ==
    inst = "open" =>
        \A i \in 1..Len(lru) :
            Lookup(metadata, lru[i][1]) = [res |-> "some", value |-> lru[i][2]]

\* a get has returned the two-byte value kept under bincode beside another key
C1_Witness ==
    /\ inst = "open"
    /\ last.op = "get" /\ last.res = "some" /\ last.value = 300
    /\ config.encoding = "bincode"
    /\ Len(lru) = 2
    /\ InHistory(lru, last.key) /\ HistoryValue(lru, last.key) = 300

\* C2 (durability): an open instance and the instance that initialize would
\* build from the directory at that moment return the same result of get for
\* every key; and the instance initialize has built returns Some(v) for
\* exactly the keys put and not evicted, v their last value.
C2_Durability ==
    inst = "open" =>
        /\ initialize(metaFile).res = "ok"
        /\ \A key \in Keys :
              Lookup(initialize(metaFile).metadata, key) = Lookup(metadata, key)
        /\ last.op = "initialize" =>
              \A key \in Keys :
                  Lookup(metadata, key) =
                      IF InHistory(lru, key)
                      THEN [res |-> "some", value |-> HistoryValue(lru, key)]
                      ELSE [res |-> "none", value |-> NoValue]

\* initialize has rebuilt an instance from a directory that holds two live
\* keys, written by an earlier instance that also evicted
C2_Witness ==
    /\ inst = "open"
    /\ last.op = "initialize" /\ last.res = "ok"
    /\ Len(lru) = 2 /\ Len(metadata.entries) = 2
    /\ metadata.counter = 3

\* C3 (size accounting): in every state of an open instance, current_size is
\* the sum of the sizes of the entries in the queue.
C3_SizeAccounting ==
    inst = "open" => metadata.current_size = SumSizes(metadata.entries)

\* C4 (budget): after every put or get that returned without error,
\* current_size is at most max_bytes.
C4_Budget ==
    (inst = "open" /\ last.op \in {"put", "get"} /\ Succeeded) =>
        metadata.current_size <= config.max_bytes

\* a put has evicted and left the ledger exactly at the budget
C4_Witness ==
    /\ inst = "open"
    /\ last.op = "put" /\ last.res = "ok" /\ last.evicted # <<>>
    /\ last.mid > config.max_bytes
    /\ metadata.current_size = config.max_bytes
    /\ metadata.entries # <<>>

\* C5 (overwrite size delta): a put on a key whose entry has size o, writing
\* n bytes, moves current_size by n - o before it evicts.
C5_OverwriteDelta ==
    [][(/\ inst = "open"
        /\ last'.op = "put" /\ last'.res = "ok"
        /\ HasKey(metadata.entries, last'.key))
       => last'.mid = metadata.current_size + last'.bytes
                        - EntryOf(metadata.entries, last'.key).size]_vars

HistoryKeys(h) == [i \in 1..Len(h) |-> h[i][1]]

\* the order in which a put of key finds the keys: the least recently put or
\* read first, key itself last
RecencyAtPut(h, key) ==
    Append(SelectSeq(HistoryKeys(h), LAMBDA k : k # key), key)

\* C6 (eviction order): a put that evicts removes exactly the least recently
\* put-or-read keys, oldest first, and keeps the others in order; it stops as
\* soon as current_size <= max_bytes; no evicted entry's payload file is left.
C6_EvictionOrder ==
    [][(/\ inst = "open"
        /\ last'.op = "put" /\ last'.res = "ok"
        /\ last'.evicted # <<>>)
       => LET order == RecencyAtPut(lru, last'.key)
              n == Len(last'.evicted)
          IN /\ n <= Len(order)
             /\ KeysOf(last'.evicted) = SubSeq(order, 1, n)
             /\ KeysOf(metadata'.entries) = SubSeq(order, n + 1, Len(order))
             /\ metadata'.current_size <= config.max_bytes
             /\ metadata'.current_size + last'.evicted[n].size
                    > config.max_bytes
             /\ \A i \in 1..n :
                   ~FileExists(files', data_file_path(last'.evicted[i].id))
      ]_vars

\* a put has evicted the two oldest keys and kept its own
C6_Witness ==
    /\ inst = "open"
    /\ last.op = "put" /\ last.res = "ok"
    /\ Len(last.evicted) = 2
    /\ KeysOf(metadata.entries) = <<last.key>>
    /\ metadata.current_size = SumSizes(metadata.entries)

\* C7 (recency refresh): after a get that returned Some, the key is at the
\* tail of the ledger; and a key is evicted only after every key that was put
\* or read less recently than it.
C7_RecencyRefresh ==
    /\ []((inst = "open" /\ last.op = "get" /\ last.res = "some") =>
            /\ metadata.entries # <<>>
            /\ metadata.entries[Len(metadata.entries)].key = last.key)
    /\ [][(inst = "open" /\ last'.op = "put" /\ last'.res = "ok") =>
            \A i \in 1..Len(last'.evicted) : \A j \in 1..Len(lru) :
                ((\E l \in (j + 1)..Len(lru) :
                       lru[l][1] = last'.evicted[i].key)
                 /\ lru[j][1] # last'.key)
                => \E i2 \in 1..(i - 1) : last'.evicted[i2].key = lru[j][1]
         ]_vars

\* a get has moved the oldest of three keys to the tail
C7_Witness ==
    /\ inst = "open"
    /\ last.op = "get" /\ last.res = "some"
    /\ Len(metadata.entries) = 3
    /\ metadata.entries[3].key = last.key
    /\ metadata.entries[3].id = 0

\* C8 (invalid configuration): with subdirs_per_level = 0 initialize builds
\* no instance, and no call panics on a remainder by zero.
C8_ZeroSubdirsRejected ==
    /\ config.subdirs_per_level = 0 => inst # "open"
    /\ ~(last.res = "panic" /\ last.error = "rem_by_zero")

\* C9 (get on an absent key): a get of a key without ledger entry returns
\* Ok(None), and a get that returns Ok(None) leaves the ledger, the metadata
\* file, the payload files and the directories as they were.
C9_GetAbsent ==
    /\ [][(inst = "open" /\ last'.op = "get"
           /\ ~HasKey(metadata.entries, last'.key))
          => last'.res = "none"]_vars
    /\ [][(last'.op = "get" /\ last'.res = "none")
          => /\ inst = "open" /\ inst' = "open"
             /\ UNCHANGED <<metadata, metaFile, files, dirs>>]_vars

\* a get has missed on a ledger that holds other keys
C9_Witness ==
    /\ inst = "open"
    /\ last.op = "get" /\ last.res = "none"
    /\ ~HasKey(metadata.entries, last.key)
    /\ Len(metadata.entries) = 2

ReadErrors == {"ReadCacheFile", "DeserializeValue"}

\* C10 (failed read loses the entry): after a get that found the key and
\* failed to open or decode its payload file, the ledger holds no entry for
\* the key, and a get of the key that follows at once returns Ok(None).
C10_FailedReadLosesEntry ==
    /\ []((inst = "open" /\ last.op = "get" /\ last.res = "err"
           /\ last.error \in ReadErrors) =>
            /\ ~HasKey(metadata.entries, last.key)
            /\ Lookup(metadata, last.key).res = "none")
    /\ [][(/\ last.op = "get" /\ last.res = "err"
           /\ last.error \in ReadErrors
           /\ last'.op = "get" /\ last'.key = last.key)
          => last'.res = "none"]_vars

\* a get has failed to decode the payload of a key whose file is still there
C10_Witness ==
    /\ inst = "open"
    /\ last.op = "get" /\ last.res = "err"
    /\ last.error = "DeserializeValue"
    /\ ~HasKey(metadata.entries, last.key)
    /\ metadata.entries # <<>>
    /\ files # {}

\* C11 (no partial ledger commit): a put that returns an error leaves the
\* in-memory ledger (entries, order, current_size, counter) as it was.
C11_NoPartialCommit ==
    [][(inst = "open" /\ last'.op = "put" /\ last'.res = "err")
       => metadata' = metadata]_vars

\* C12 (cleanup never dequeues from an empty ledger): on a file system whose
\* calls succeed, no call ends in the panic of remove_head().unwrap(), and
\* an open instance with an empty ledger is within its budget.
C12_CleanupNeverEmpty ==
    /\ last.error # "unwrap"
    /\ (inst = "open" /\ metadata.entries = <<>>) => ~OverBudget(metadata)

\* a put has evicted down to an empty ledger whose current_size is still
\* positive, and returned Ok
C12_Witness ==
    /\ inst = "open"
    /\ last.op = "put" /\ last.res = "ok"
    /\ last.evicted # <<>>
    /\ metadata.entries = <<>>
    /\ metadata.current_size > 0

\* C13 (overwrite reuses identity): a put on a key that has an entry with
\* id i leaves counter unchanged and adds no entry; no file but the one of
\* id i is written; and if the key is still in the ledger it has one entry,
\* with id i, at the tail, and the file of id i holds the new payload.
C13_OverwriteReusesId ==
    [][(/\ inst = "open"
        /\ last'.op = "put" /\ last'.res = "ok"
        /\ HasKey(metadata.entries, last'.key))
       => LET k == last'.key
              i == EntryOf(metadata.entries, k).id
              after == metadata'.entries
          IN /\ metadata'.counter = metadata.counter
             /\ Len(after) <= Len(metadata.entries)
             /\ \A f \in files' : f.path # data_file_path(i) => f \in files
             /\ HasKey(after, k) =>
                  /\ Cardinality({j \in 1..Len(after) : after[j].key = k}) = 1
                  /\ after[Len(after)].key = k
                  /\ after[Len(after)].id = i
                  /\ FileExists(files', data_file_path(i))
                  /\ ReadFile(files', data_file_path(i))
                       = serialize(config.encoding, last'.value)]_vars

\* a put has overwritten a key whose id is not the newest, beside another key
C13_Witness ==
    /\ inst = "open"
    /\ last.op = "put" /\ last.res = "ok"
    /\ Len(metadata.entries) >= 2
    /\ HasKey(metadata.entries, last.key)
    /\ EntryOf(metadata.entries, last.key).id + 1 < metadata.counter

\* C14 (entry-id uniqueness): counter is greater than the id of every entry
\* and of every payload file written, two live keys never share an id,
\* counter never decreases while the instance lives, and a key without an
\* entry that is put gets the counter value at that put as its id.
C14_EntryIdUnique ==
    [][/\ (inst = "open" /\ inst' = "open")
            => metadata'.counter >= metadata.counter
       /\ (/\ inst = "open"
           /\ last'.op = "put" /\ last'.res = "ok"
           /\ ~HasKey(metadata.entries, last'.key))
          => /\ metadata'.counter = metadata.counter + 1
             /\ HasKey(metadata'.entries, last'.key)
                  => EntryOf(metadata'.entries, last'.key).id = metadata.counter
             /\ \A j \in 1..Len(last'.evicted) :
                  last'.evicted[j].key = last'.key
                    => last'.evicted[j].id = metadata.counter
       /\ inst' = "open" =>
            LET after == metadata'.entries
            IN /\ \A j \in 1..Len(after) : after[j].id < metadata'.counter
               /\ \A f \in files' : f.path.name < metadata'.counter
               /\ \A j, l \in 1..Len(after) :
                    after[j].id = after[l].id => after[j].key = after[l].key
      ]_vars

\* C15 (persist after every mutating operation): after every put that
\* returns Ok and every get that returns Some, the ledger decoded from the
\* metadata file is the ledger in memory, and it is the ledger a new
\* instance on the directory starts with.
C15_PersistAfterMutation ==
    (inst = "open" /\ last.op \in {"put", "get"} /\ last.res \in {"ok", "some"})
    => /\ metaFile.exists
       /\ DeserializeMetadata(metaFile.content).ok
       /\ DeserializeMetadata(metaFile.content).metadata = metadata
       /\ initialize(metaFile).res = "ok"
       /\ initialize(metaFile).metadata = metadata

\* a get has returned Some for the older of two keys, and current_size is
\* above the queued sizes
C15_Witness ==
    /\ inst = "open"
    /\ last.op = "get" /\ last.res = "some"
    /\ Len(metadata.entries) >= 2
    /\ metadata.entries[Len(metadata.entries)].id < metadata.entries[1].id
    /\ metadata.current_size > SumSizes(metadata.entries)
    /\ DeserializeMetadata(metaFile.content).metadata = metadata

\* C16 (oversized entry boundary): a put whose payload encodes to more bytes
\* than max_bytes returns Ok, and afterwards the key has no entry, its
\* payload file does not exist, get of the key returns Ok(None), and
\* current_size is the sum of the queued sizes and within max_bytes.
C16_OversizedEntry ==
    (/\ config.subdirs_per_level >= 1
     /\ last.op = "put"
     /\ last.bytes > config.max_bytes)
    => /\ last.res = "ok"
       /\ inst = "open"
       /\ ~HasKey(metadata.entries, last.key)
       /\ \A j \in 1..Len(last.evicted) :
            last.evicted[j].key = last.key
              => ~FileExists(files, data_file_path(last.evicted[j].id))
       /\ get(metadata, metaFile, files, dirs, last.key, "none").res = "none"
       /\ metadata.current_size = SumSizes(metadata.entries)
       /\ metadata.current_size <= config.max_bytes

\* C17 (a successful get changes only recency): a get that returns Some
\* leaves the key's size and id, the set of live keys, the order of the
\* other keys, current_size, counter and every payload file as they were.
C17_GetFrame ==
    [][(inst = "open" /\ last'.op = "get" /\ last'.res = "some")
       => LET k == last'.key
          IN /\ HasKey(metadata.entries, k) /\ HasKey(metadata'.entries, k)
             /\ EntryOf(metadata'.entries, k) = EntryOf(metadata.entries, k)
             /\ {metadata'.entries[j].key : j \in 1..Len(metadata'.entries)}
                  = {metadata.entries[j].key : j \in 1..Len(metadata.entries)}
             /\ Len(metadata'.entries) = Len(metadata.entries)
             /\ remove_key(metadata'.entries, k) = remove_key(metadata.entries, k)
             /\ metadata'.current_size = metadata.current_size
             /\ metadata'.counter = metadata.counter
             /\ files' = files]_vars

\* a get has returned Some for a key that is older than another live key
\* and whose size differs from its id
C17_Witness ==
    /\ inst = "open"
    /\ last.op = "get" /\ last.res = "some"
    /\ Len(metadata.entries) >= 2
    /\ metadata.entries[Len(metadata.entries)].key = last.key
    /\ metadata.entries[Len(metadata.entries)].id < metadata.entries[1].id
    /\ metadata.entries[Len(metadata.entries)].id
         # metadata.entries[Len(metadata.entries)].size

\* the ids whose paths are compared
PathIds == 0..(MaxCounter * MaxCounter)

\* C18 (sharded path mapping): for subdirs_per_level = S >= 1 the path of an
\* id is subdir_1 = id mod S, subdir_2 = (id / S) mod S, file data_{id}.{ext};
\* distinct ids have distinct paths, and with S = 1 every path is in 0/0.
C18_ShardedPath ==
    config.subdirs_per_level >= 1 =>
      LET S == config.subdirs_per_level
      IN /\ \A id \in PathIds :
              LET p == data_file_path(id)
              IN /\ \E q \in 0..id, r \in 0..(S - 1) :
                      /\ id = q * S + r
                      /\ p.subdir_1 = r
                      /\ \E q2 \in 0..q, r2 \in 0..(S - 1) :
                           q = q2 * S + r2 /\ p.subdir_2 = r2
                 /\ p.name = id
                 /\ p.ext = extension(config.encoding)
                 /\ S = 1 => DirOf(p) = <<0, 0>>
         /\ \A id1, id2 \in PathIds :
              data_file_path(id1) = data_file_path(id2) => id1 = id2
         /\ \A f \in files : \E e \in PathIds : f.path = data_file_path(e)

\* payload files lie in three directories, one of them at second level 1
C18_Witness ==
    /\ config.subdirs_per_level = 2
    /\ Cardinality({DirOf(f.path) : f \in files}) >= 3
    /\ \E f \in files : f.path.subdir_2 = 1 /\ f.path.subdir_1 = 0

\* C19 (ledger/file correspondence): while calls succeed, the payload files
\* on disk are exactly the files of the ids of the live entries.
C19_LedgerFiles ==
    (inst = "open" /\ Succeeded) =>
      /\ {f.path.name : f \in files}
           = {metadata.entries[j].id : j \in 1..Len(metadata.entries)}
      /\ Cardinality(files) = Len(metadata.entries)
      /\ \A j \in 1..Len(metadata.entries) :
           FileExists(files, data_file_path(metadata.entries[j].id))

\* a put has overwritten one key and evicted another, and entries remain
C19_Witness ==
    /\ inst = "open"
    /\ last.op = "put" /\ last.res = "ok"
    /\ last.evicted # <<>>
    /\ HasKey(metadata.entries, last.key)
    /\ EntryOf(metadata.entries, last.key).id + 1 < metadata.counter
    /\ Cardinality(files) = Len(metadata.entries)

\* C20 (no panic after an I/O failure): once a call has failed, every put
\* still returns Ok or an error value.
C20_NoPanicAfterFailure ==
    (failures > 0 /\ last.op = "put") => last.res \in {"ok", "err"}

====
